---- MODULE Spec2Model ----
(***************************************************************************)
(* Progress-and-achievement engine of the commit tracker: the client's     *)
(* update_progress cycle (src/main.py) against the per-user document kept  *)
(* by the dashboard server (src/web_dashboard.py).                         *)
(***************************************************************************)
EXTENDS Integers, Sequences, FiniteSets

(* ------------------------------ bounds -------------------------------- *)

\* number of distinct commits that can ever appear in the repository
NumCommits == 3
\* the clock stops here: a behaviour has fewer than MaxClock operations
MaxClock == 8
\* largest message length / file count fed to calculate_commit_points alone
MaxMsgLen == 520
MaxFiles == 3
\* largest points value fed to the rank resolver alone
MaxPoints == 75100
\* the plain commits fall on the days 1..MaxDay
MaxDay == 3

(* ----------------------------- constants ------------------------------ *)

\* Python's None (also the falsy value of last_processed_commit / unlocked_at)
None == 0

\* points a result has before calculate_commit_points has run
NoPoints == 0 - 1

CommitIds == 1..NumCommits

\* A commit is identified by its hexsha; its content is fixed by the hexsha.
\* message_len = len(commit.message), files = len(commit.stats.files),
\* hour / date = commit.committed_datetime.hour / .date() (a day number).
Commit(id) ==
    CASE id = 1 -> [hexsha |-> 1, message_len |-> 120, files |-> 4, hour |-> 22, date |-> 3]
      [] id = 2 -> [hexsha |-> 2, message_len |-> 650, files |-> 1, hour |-> 12, date |-> 1]
      [] id = 3 -> [hexsha |-> 3, message_len |-> 100, files |-> 3, hour |-> 8,  date |-> 2]
      [] id = 4 -> [hexsha |-> 4, message_len |-> 7,   files |-> 0, hour |-> 21, date |-> 2]
      \* plain commits that differ by their day: hexsha 10 * position + date
      [] OTHER  -> [hexsha |-> id, message_len |-> 5, files |-> 1, hour |-> 12,
                    date |-> id % 10]

\* the commit handed to calculate_commit_points when it is exercised alone
NoCommit == [hexsha |-> None, message_len |-> 0, files |-> 0, hour |-> 0, date |-> 0]

ACHIEVEMENTS ==
    << [id |-> "first_commit",      name |-> "First Commit",      points |-> 100],
       [id |-> "commit_master",     name |-> "Commit Master",     points |-> 500],
       [id |-> "commit_enthusiast", name |-> "Commit Enthusiast", points |-> 300],
       [id |-> "commit_streak",     name |-> "Commit Streak",     points |-> 400],
       [id |-> "message_pro",       name |-> "Message Pro",       points |-> 200],
       [id |-> "multi_file",        name |-> "Multi-file Master", points |-> 250],
       [id |-> "early_bird",        name |-> "Early Bird",        points |-> 150],
       [id |-> "night_owl",         name |-> "Night Owl",         points |-> 150] >>

RANKS ==
    << [name |-> "Cardboard",  points_required |-> 0],
       [name |-> "Bronze",     points_required |-> 1000],
       [name |-> "Silver",     points_required |-> 2500],
       [name |-> "Gold",       points_required |-> 5000],
       [name |-> "Platinum",   points_required |-> 10000],
       [name |-> "Diamond",    points_required |-> 20000],
       [name |-> "Champion",   points_required |-> 35000],
       [name |-> "Wizard",     points_required |-> 50000],
       [name |-> "Mastermind", points_required |-> 75000] >>

\* get_next_rank's None, as a record so that it compares with rank records
NoRank == [name |-> "None", points_required |-> 0 - 1]

(* ------------------------------- state -------------------------------- *)

VARIABLES
    history,        \* the repository: hexshas, newest first (repo.iter_commits())
    store,          \* the server's per-user document (user_data/<username>.json)
    clock,          \* datetime.now(), one tick per operation
    all_commits,    \* update_progress: all_commits of the latest call
    new_commits,    \* update_progress: new_commits of the latest call
    outcome,        \* update_progress: where the latest call returned
    commit_in,      \* calculate_commit_points exercised alone: its argument
    points_out,     \* calculate_commit_points exercised alone: its result
    points_in,      \* the rank resolver exercised alone: its argument
    ranks_out,      \* the rank resolver exercised alone: its two results
    last_known_commit,  \* the polling loop: the global last_known_commit
    check_returned,     \* the polling loop: what check_for_new_commits returned last
    current_commit,     \* the polling loop: current_commit of the latest check
    cycles          \* unserialized clients: each one's place in update_progress

\* the arguments and results of the functions exercised alone
probes == <<commit_in, points_out, points_in, ranks_out>>

\* the polling loop's own state
loop == <<last_known_commit, check_returned, current_commit>>

vars == <<history, store, clock, all_commits, new_commits, outcome, probes, loop, cycles>>

(* ------------------------------ helpers ------------------------------- *)

Min(a, b) == IF a < b THEN a ELSE b

Range(s) == {s[i] : i \in 1..Len(s)}

(* --------------------------- scoring function ------------------------- *)

\* mutant: the message bonus without its cap
MessageBonusUncapped(message_length) == message_length \div 10

\* mutant: max where the code has min
MessageBonusMax(message_length) ==
    IF message_length \div 10 > 50 THEN message_length \div 10 ELSE 50

MessageBonus(message_length) == Min(message_length \div 10, 50)

calculate_commit_points(commit) ==
    LET base == 50
        with_message == base + MessageBonus(commit.message_len)
        with_files == with_message + commit.files * 5
    IN  IF commit.hour < 9 THEN with_files + 20
        ELSE IF commit.hour >= 21 THEN with_files + 20
        ELSE with_files

(* ---------------------------- commit scanner -------------------------- *)

\* mutant: the 1-based position of the first match
last_commit_index_OneBased(commits, last_processed) ==
    CHOOSE i \in 1..Len(commits) :
        /\ commits[i] = last_processed
        /\ \A j \in 1..(i - 1) : commits[j] # last_processed

\* next(i for i, c in enumerate(all_commits) if c.hexsha == last_processed):
\* the 0-based index of the first match (only used when a match exists)
last_commit_index(commits, last_processed) ==
    (CHOOSE i \in 1..Len(commits) :
        /\ commits[i] = last_processed
        /\ \A j \in 1..(i - 1) : commits[j] # last_processed) - 1

\* mutant: the slice keeps the checkpoint commit
PrefixInclusive(commits, n) == SubSeq(commits, 1, n + 1)

\* all_commits[:last_commit_index]
Prefix(commits, n) == SubSeq(commits, 1, n)

\* mutant: without a checkpoint only the head is taken
FindNewCommitsHeadOnly(commits, last_processed) ==
    IF last_processed # None
    THEN IF \E i \in 1..Len(commits) : commits[i] = last_processed
         THEN SubSeq(commits, 1, (CHOOSE i \in 1..Len(commits) :
                                     /\ commits[i] = last_processed
                                     /\ \A j \in 1..(i - 1) : commits[j] # last_processed) - 1)
         ELSE commits
    ELSE IF commits = <<>> THEN <<>> ELSE <<Head(commits)>>

\* mutant: a checkpoint that is not found yields no new commits
FindNewCommitsSkipMissing(commits, last_processed) ==
    IF last_processed # None
    THEN IF \E i \in 1..Len(commits) : commits[i] = last_processed
         THEN SubSeq(commits, 1, (CHOOSE i \in 1..Len(commits) :
                                     /\ commits[i] = last_processed
                                     /\ \A j \in 1..(i - 1) : commits[j] # last_processed) - 1)
         ELSE <<>>
    ELSE commits

\* the choice of new_commits at the top of update_progress
FindNewCommits(commits, last_processed) ==
    IF last_processed # None
    THEN IF \E i \in 1..Len(commits) : commits[i] = last_processed
         THEN Prefix(commits, last_commit_index(commits, last_processed))
         ELSE commits
    ELSE commits

\* mutant: the checkpoint is the oldest of the new commits
NewCheckpointOldest(new) == new[Len(new)]

\* progress['last_processed_commit'] = new_commits[0].hexsha
NewCheckpoint(new) == new[1]

\* new_points: the sum of calculate_commit_points over new_commits
RECURSIVE NewPoints(_)
NewPoints(new) ==
    IF new = <<>> THEN 0
    ELSE calculate_commit_points(Commit(Head(new))) + NewPoints(Tail(new))

(* ------------------------- achievement evaluator ---------------------- *)

\* commit_dates = set(c.date() for c in commit_times)
commit_dates(commits) == {Commit(commits[i]).date : i \in 1..Len(commits)}

\* sorted(commit_dates): ascending, smallest first
RECURSIVE sorted_dates(_)
sorted_dates(dates) ==
    IF dates = {} THEN <<>>
    ELSE LET least == CHOOSE d \in dates : \A e \in dates : d <= e
         IN  <<least>> \o sorted_dates(dates \ {least})

\* commits_per_day[day]
commits_per_day(commits, day) ==
    Cardinality({i \in 1..Len(commits) : Commit(commits[i]).date = day})

\* mutant: two consecutive days are enough
HasStreakTwoDays(commits) ==
    LET sd == sorted_dates(commit_dates(commits))
    IN  \E i \in 1..(Len(sd) - 1) : sd[i + 1] - sd[i] = 1

\* the loop over consecutive triples of sorted_dates
HasStreak(commits) ==
    LET sd == sorted_dates(commit_dates(commits))
    IN  \E i \in 1..(Len(sd) - 2) :
            /\ sd[i + 1] - sd[i] = 1
            /\ sd[i + 2] - sd[i + 1] = 1

\* the unlock condition of each branch of the if/elif chain
ShouldUnlock(achievement_id, commits, commits_count) ==
    CASE achievement_id = "first_commit" -> commits_count >= 1
      [] achievement_id = "commit_master" -> commits_count >= 10
      [] achievement_id = "commit_enthusiast" ->
            \E day \in commit_dates(commits) : commits_per_day(commits, day) >= 5
      [] achievement_id = "commit_streak" -> HasStreak(commits)
      [] achievement_id = "message_pro" ->
            \E i \in 1..Len(commits) : Commit(commits[i]).message_len > 100
      [] achievement_id = "multi_file" ->
            \E i \in 1..Len(commits) : Commit(commits[i]).files >= 3
      [] achievement_id = "early_bird" ->
            \E i \in 1..Len(commits) : Commit(commits[i]).hour < 9
      [] achievement_id = "night_owl" ->
            \E i \in 1..Len(commits) : Commit(commits[i]).hour >= 21
      [] OTHER -> FALSE

\* {a['name'] for a in data['achievements'] if a.get('unlocked_at')}
unlocked_achievements(achievements) ==
    {achievements[i].name : i \in {j \in 1..Len(achievements) : achievements[j].unlocked_at # None}}

\* mutant: the lookup by name never finds the record
FirstNamedMiss(achievements, name) == 0

\* index of next(a for a in data['achievements'] if a['name'] == name), 0 if none
FirstNamed(achievements, name) ==
    IF \E i \in 1..Len(achievements) : achievements[i].name = name
    THEN CHOOSE i \in 1..Len(achievements) :
            /\ achievements[i].name = name
            /\ \A j \in 1..(i - 1) : achievements[j].name # name
    ELSE 0

\* whether the loop skips the catalog entry (the `continue`)
SkipUnlocked(name, unlocked) == name \in unlocked

\* mutant: the iteration neither skips unlocked names nor tests unlocked_at
CheckAchievementAgain(entry, data, unlocked, commits, now) ==
    LET found == FirstNamed(data.achievements, entry.name)
        achievements == IF found = 0
                        THEN Append(data.achievements,
                                    [name |-> entry.name, points |-> entry.points,
                                     unlocked_at |-> None])
                        ELSE data.achievements
        at == IF found = 0 THEN Len(achievements) ELSE found
    IN  IF ShouldUnlock(entry.id, commits, data.user_progress.commits_count)
        THEN [data EXCEPT
                !.achievements = [achievements EXCEPT ![at].unlocked_at = now],
                !.user_progress.total_points = @ + achievements[at].points]
        ELSE [data EXCEPT !.achievements = achievements]

\* one iteration of the loop over ACHIEVEMENTS, on data = [user_progress, achievements]
CheckAchievement(entry, data, unlocked, commits, now) ==
    IF SkipUnlocked(entry.name, unlocked) THEN data
    ELSE LET found == FirstNamed(data.achievements, entry.name)
             achievements == IF found = 0
                             THEN Append(data.achievements,
                                         [name |-> entry.name, points |-> entry.points,
                                          unlocked_at |-> None])
                             ELSE data.achievements
             at == IF found = 0 THEN Len(achievements) ELSE found
         IN  IF /\ achievements[at].unlocked_at = None
                /\ ShouldUnlock(entry.id, commits, data.user_progress.commits_count)
             THEN [data EXCEPT
                     !.achievements = [achievements EXCEPT ![at].unlocked_at = now],
                     !.user_progress.total_points = @ + achievements[at].points]
             ELSE [data EXCEPT !.achievements = achievements]

\* the loop over ACHIEVEMENTS.items(), from catalog entry i on
RECURSIVE CheckAchievements(_, _, _, _, _)
CheckAchievements(i, data, unlocked, commits, now) ==
    IF i > Len(ACHIEVEMENTS) THEN data
    ELSE CheckAchievements(i + 1,
                           CheckAchievement(ACHIEVEMENTS[i], data, unlocked, commits, now),
                           unlocked, commits, now)

\* mutant: total_points is assigned the new points instead of increased by them
EvaluateAssign(data, commits, new, now) ==
    LET progress == [data.user_progress EXCEPT
                        !.last_processed_commit = new[1],
                        !.commits_count = Len(commits),
                        !.total_points = NewPoints(new),
                        !.last_updated = now]
        scored == [data EXCEPT !.user_progress = progress]
    IN  CheckAchievements(1, scored, unlocked_achievements(data.achievements), commits, now)

\* mutant: commits_count is increased by the number of new commits
EvaluateIncrement(data, commits, new, now) ==
    LET progress == [data.user_progress EXCEPT
                        !.last_processed_commit = new[1],
                        !.commits_count = @ + Len(new),
                        !.total_points = @ + NewPoints(new),
                        !.last_updated = now]
        scored == [data EXCEPT !.user_progress = progress]
    IN  CheckAchievements(1, scored, unlocked_achievements(data.achievements), commits, now)

\* mutant: the achievements are evaluated on the new commits only
EvaluateDelta(data, commits, new, now) ==
    LET progress == [data.user_progress EXCEPT
                        !.last_processed_commit = new[1],
                        !.commits_count = Len(commits),
                        !.total_points = @ + NewPoints(new),
                        !.last_updated = now]
        scored == [data EXCEPT !.user_progress = progress]
    IN  CheckAchievements(1, scored, unlocked_achievements(data.achievements), new, now)

\* update_progress from the checkpoint update to just before the save:
\* the data it posts, given the loaded data and a non-empty new
Evaluate(data, commits, new, now) ==
    LET progress == [data.user_progress EXCEPT
                        !.last_processed_commit = NewCheckpoint(new),
                        !.commits_count = Len(commits),
                        !.total_points = @ + NewPoints(new),
                        !.last_updated = now]
        scored == [data EXCEPT !.user_progress = progress]
    IN  CheckAchievements(1, scored, unlocked_achievements(data.achievements), commits, now)

(* ------------------------------ rank resolver ------------------------- *)

\* the loop of get_current_rank over RANKS.items(), from entry i on
RECURSIVE CurrentRankFrom(_, _, _)
CurrentRankFrom(i, points, current) ==
    IF i > Len(RANKS) THEN current
    ELSE CurrentRankFrom(i + 1, points,
                         IF points >= RANKS[i].points_required THEN RANKS[i] ELSE current)

\* mutant: a rank is reached only above its threshold (> where the code has >=)
RECURSIVE CurrentRankStrictFrom(_, _, _)
CurrentRankStrictFrom(i, points, current) ==
    IF i > Len(RANKS) THEN current
    ELSE CurrentRankStrictFrom(i + 1, points,
                               IF points > RANKS[i].points_required THEN RANKS[i] ELSE current)

get_current_rank_Strict(points) == CurrentRankStrictFrom(1, points, RANKS[1])

get_current_rank(points) == CurrentRankFrom(1, points, RANKS[1])

\* sorted(RANKS.items(), key=points_required): a stable insertion sort
RECURSIVE InsertRank(_, _)
InsertRank(r, s) ==
    IF s = <<>> THEN <<r>>
    ELSE IF Head(s).points_required <= r.points_required
         THEN <<Head(s)>> \o InsertRank(r, Tail(s))
         ELSE <<r>> \o s

RECURSIVE SortRanks(_, _)
SortRanks(n, acc) ==
    IF n > Len(RANKS) THEN acc ELSE SortRanks(n + 1, InsertRank(RANKS[n], acc))

\* mutant: the next rank may be the one just reached (>= where the code has >)
get_next_rank_AtLeast(points) ==
    LET sorted == SortRanks(1, <<>>)
    IN  IF \E i \in 1..Len(sorted) : sorted[i].points_required >= points
        THEN sorted[CHOOSE i \in 1..Len(sorted) :
                        /\ sorted[i].points_required >= points
                        /\ \A j \in 1..(i - 1) : ~(sorted[j].points_required >= points)]
        ELSE NoRank

get_next_rank(points) ==
    LET sorted == SortRanks(1, <<>>)
    IN  IF \E i \in 1..Len(sorted) : sorted[i].points_required > points
        THEN sorted[CHOOSE i \in 1..Len(sorted) :
                        /\ sorted[i].points_required > points
                        /\ \A j \in 1..(i - 1) : ~(sorted[j].points_required > points)]
        ELSE NoRank

(* --------------------------------- server ----------------------------- *)

\* the user's file before the first save: os.path.exists(file_path) is false
NoFile ==
    [exists |-> FALSE,
     user_progress |-> [total_points |-> 0, commits_count |-> 0,
                        last_updated |-> None, last_processed_commit |-> None],
     achievements |-> <<>>]

\* the server's load_user_data: the file's content, or the defaults stamped now
load_user_data(file, now) ==
    IF file.exists
    THEN [user_progress |-> file.user_progress, achievements |-> file.achievements]
    ELSE [user_progress |-> [total_points |-> 0, commits_count |-> 0,
                             last_updated |-> now, last_processed_commit |-> None],
          achievements |-> <<>>]

\* GET /api/user/<username>: the document plus current_rank and next_rank
get_user_data(file, now) ==
    LET data == load_user_data(file, now)
    IN  [user_progress |-> data.user_progress,
         achievements |-> data.achievements,
         current_rank |-> get_current_rank(data.user_progress.total_points),
         next_rank |-> get_next_rank(data.user_progress.total_points)]

\* mutant: the POST stores the achievements but not the posted user_progress
update_user_data_KeepProgress(file, new_data, now) ==
    [exists |-> TRUE,
     user_progress |-> load_user_data(file, now).user_progress,
     achievements |-> new_data.achievements]

\* mutant: the POST never lowers total_points (keeps the higher of the two)
update_user_data_KeepHighest(file, new_data, now) ==
    LET current_data == load_user_data(file, now)
    IN  [exists |-> TRUE,
         user_progress |-> [new_data.user_progress EXCEPT
               !.total_points = IF current_data.user_progress.total_points > @
                                THEN current_data.user_progress.total_points ELSE @],
         achievements |-> new_data.achievements]

\* POST /api/user/<username>: user_progress.update(...), achievements replaced,
\* the posted current_rank / next_rank not stored; then the file is written
update_user_data(file, new_data, now) ==
    LET current_data == load_user_data(file, now)
    IN  [exists |-> TRUE,
         user_progress |-> new_data.user_progress,
         achievements |-> new_data.achievements]

(* -------------------------------- actions ----------------------------- *)

\* the rank resolver's results before it has run
NoRanks == [current |-> NoRank, next |-> NoRank]

\* the two client processes that run update_progress for the same user
Clients == {1, 2}

\* a client that has not entered update_progress: pc is its place in the
\* function, data and commits its locals of the same names, posted whether its
\* latest call reached a successful save
Idle == [pc |-> "idle", data |-> NoFile, commits |-> <<>>, posted |-> FALSE]

Init ==
    /\ history = <<>>
    /\ store = NoFile
    /\ clock = 1
    /\ all_commits = <<>>
    /\ new_commits = <<>>
    /\ outcome = "none"
    /\ commit_in = NoCommit
    /\ points_out = NoPoints
    /\ points_in = 0
    /\ ranks_out = NoRanks
    /\ last_known_commit = None
    /\ check_returned = "none"
    /\ current_commit = None
    /\ cycles = [p \in Clients |-> Idle]

\* git commit: a commit not in the history becomes the head
GitCommit(id) ==
    /\ clock < MaxClock
    /\ clock' = clock + 1
    /\ id \notin Range(history)
    /\ history' = <<id>> \o history
    /\ UNCHANGED <<store, all_commits, new_commits, outcome, probes, loop, cycles>>

\* git reset --hard HEAD~1: the head leaves the history (history rewritten)
GitReset ==
    /\ clock < MaxClock
    /\ clock' = clock + 1
    /\ history # <<>>
    /\ history' = Tail(history)
    /\ UNCHANGED <<store, all_commits, new_commits, outcome, probes, loop, cycles>>

\* mutant: a failed save leaves the progress written, the achievements not
UpdateCyclePartial(repo_ok, load_ok, save_ok) ==
    /\ clock < MaxClock
    /\ clock' = clock + 1
    /\ UNCHANGED <<history, probes, cycles>>
    /\ IF ~repo_ok
       THEN /\ outcome' = "no_repo"
            /\ all_commits' = <<>>
            /\ new_commits' = <<>>
            /\ UNCHANGED store
       ELSE IF ~load_ok
       THEN /\ outcome' = "load_failed"
            /\ all_commits' = <<>>
            /\ new_commits' = <<>>
            /\ UNCHANGED store
       ELSE LET now == clock'
                data == get_user_data(store, now)
                new == FindNewCommits(history, data.user_progress.last_processed_commit)
            IN  /\ all_commits' = history
                /\ new_commits' = new
                /\ IF new = <<>>
                   THEN /\ outcome' = "no_new_commits"
                        /\ UNCHANGED store
                   ELSE IF save_ok
                   THEN /\ outcome' = "saved"
                        /\ store' = update_user_data(store, Evaluate(data, history, new, now), now)
                   ELSE /\ outcome' = "save_failed"
                        /\ store' = [update_user_data(store, Evaluate(data, history, new, now), now)
                                       EXCEPT !.achievements = load_user_data(store, now).achievements]

\* the body of update_progress. repo_ok: get_git_repo found a repository;
\* load_ok / save_ok: the GET / POST request succeeded (a POST that fails is
\* rejected before the server writes the file).
UpdateCycle(repo_ok, load_ok, save_ok) ==
    /\ clock < MaxClock
    /\ clock' = clock + 1
    /\ UNCHANGED <<history, probes, cycles>>
    /\ IF ~repo_ok
       THEN /\ outcome' = "no_repo"
            /\ all_commits' = <<>>
            /\ new_commits' = <<>>
            /\ UNCHANGED store
       ELSE IF ~load_ok
       THEN /\ outcome' = "load_failed"
            /\ all_commits' = <<>>
            /\ new_commits' = <<>>
            /\ UNCHANGED store
       ELSE LET now == clock'
                data == get_user_data(store, now)
                new == FindNewCommits(history, data.user_progress.last_processed_commit)
            IN  /\ all_commits' = history
                /\ new_commits' = new
                /\ IF new = <<>>
                   THEN /\ outcome' = "no_new_commits"
                        /\ UNCHANGED store
                   ELSE IF save_ok
                   THEN /\ outcome' = "saved"
                        /\ store' = update_user_data(store, Evaluate(data, history, new, now), now)
                   ELSE /\ outcome' = "save_failed"
                        /\ UNCHANGED store

\* one call of update_progress outside the polling loop
UpdateProgress(repo_ok, load_ok, save_ok) ==
    /\ UpdateCycle(repo_ok, load_ok, save_ok)
    /\ UNCHANGED loop

Next ==
    \/ \E id \in CommitIds : GitCommit(id)
    \/ GitReset
    \/ \E repo_ok, load_ok, save_ok \in BOOLEAN : UpdateProgress(repo_ok, load_ok, save_ok)

Spec == Init /\ [][Next]_vars

\* the history only grows at the front: no rewrite
NextGrow ==
    \/ \E id \in CommitIds : GitCommit(id)
    \/ \E repo_ok, load_ok, save_ok \in BOOLEAN : UpdateProgress(repo_ok, load_ok, save_ok)

SpecGrow == Init /\ [][NextGrow]_vars

(* ------------- calculate_commit_points exercised on its own ----------- *)

InitScore ==
    /\ history = <<>>
    /\ store = NoFile
    /\ clock = 1
    /\ all_commits = <<>>
    /\ new_commits = <<>>
    /\ outcome = "none"
    /\ commit_in \in [hexsha : {1}, message_len : 0..MaxMsgLen, files : 0..MaxFiles,
                      hour : 0..23, date : {1}]
    /\ points_out = NoPoints
    /\ points_in = 0
    /\ ranks_out = NoRanks
    /\ last_known_commit = None
    /\ check_returned = "none"
    /\ current_commit = None
    /\ cycles = [p \in Clients |-> Idle]

ScoreCommit ==
    /\ points_out = NoPoints
    /\ points_out' = calculate_commit_points(commit_in)
    /\ UNCHANGED <<history, store, clock, all_commits, new_commits, outcome, commit_in,
                    points_in, ranks_out, loop, cycles>>

NextScore == ScoreCommit

SpecScore == InitScore /\ [][NextScore]_vars

(* ------------------- the rank resolver exercised on its own ----------- *)

InitRank ==
    /\ history = <<>>
    /\ store = NoFile
    /\ clock = 1
    /\ all_commits = <<>>
    /\ new_commits = <<>>
    /\ outcome = "none"
    /\ commit_in = NoCommit
    /\ points_out = NoPoints
    /\ points_in \in 0..MaxPoints
    /\ ranks_out = NoRanks
    /\ last_known_commit = None
    /\ check_returned = "none"
    /\ current_commit = None
    /\ cycles = [p \in Clients |-> Idle]

\* the two calls the GET handler makes on total_points
ResolveRanks ==
    /\ ranks_out = NoRanks
    /\ ranks_out' = [current |-> get_current_rank(points_in),
                     next |-> get_next_rank(points_in)]
    /\ UNCHANGED <<history, store, clock, all_commits, new_commits, outcome,
                   commit_in, points_out, points_in, loop, cycles>>

NextRank == ResolveRanks

SpecRank == InitRank /\ [][NextRank]_vars

(* ------------- plain commits on chosen days, history only growing ----- *)

\* git commit of a plain commit dated `date`, not before the day of the head;
\* its position makes the hexsha unique
GitCommitOn(date) ==
    /\ clock < MaxClock
    /\ clock' = clock + 1
    /\ history # <<>> => date >= Commit(Head(history)).date
    /\ history' = <<10 * (Len(history) + 1) + date>> \o history
    /\ UNCHANGED <<store, all_commits, new_commits, outcome, probes, loop, cycles>>

NextDays ==
    \/ \E date \in 1..MaxDay : GitCommitOn(date)
    \/ \E repo_ok, load_ok, save_ok \in BOOLEAN : UpdateProgress(repo_ok, load_ok, save_ok)

SpecDays == Init /\ [][NextDays]_vars

(* ------- two clients inside update_progress at once, history growing -- *)

\* client p enters update_progress and loads the user's data (the GET)
LoadData(p) ==
    /\ cycles[p].pc = "idle"
    /\ cycles' = [cycles EXCEPT ![p] = [pc |-> "loaded",
                                        data |-> get_user_data(store, clock),
                                        commits |-> <<>>,
                                        posted |-> FALSE]]
    /\ UNCHANGED <<history, store, clock, all_commits, new_commits, outcome, probes, loop>>

\* client p reads the repository: all_commits = list(repo.iter_commits())
ScanCommits(p) ==
    /\ cycles[p].pc = "loaded"
    /\ cycles' = [cycles EXCEPT ![p].pc = "scanned", ![p].commits = history]
    /\ UNCHANGED <<history, store, clock, all_commits, new_commits, outcome, probes, loop>>

\* client p finishes update_progress: it returns when nothing is new, else it
\* scores, evaluates and posts what it computed from the data it loaded (the
\* POST succeeds: a failed one changes nothing, see UpdateProgress)
SaveData(p) ==
    /\ cycles[p].pc = "scanned"
    /\ clock < MaxClock
    /\ clock' = clock + 1
    /\ LET data == cycles[p].data
           new == FindNewCommits(cycles[p].commits, data.user_progress.last_processed_commit)
       IN  IF new # <<>>
           THEN /\ store' = update_user_data(store, Evaluate(data, cycles[p].commits, new, clock'),
                                             clock')
                /\ cycles' = [cycles EXCEPT ![p].pc = "done", ![p].posted = TRUE]
           ELSE /\ UNCHANGED store
                /\ cycles' = [cycles EXCEPT ![p].pc = "done"]
    /\ UNCHANGED <<history, all_commits, new_commits, outcome, probes, loop>>

\* a cycle that ran alone, before the two clients overlap
SerialCycle ==
    /\ \A p \in Clients : cycles[p].pc = "idle"
    /\ UpdateProgress(TRUE, TRUE, TRUE)

NextRace ==
    \/ \E id \in CommitIds : GitCommit(id)
    \/ SerialCycle
    \/ \E p \in Clients : LoadData(p)
    \/ \E p \in Clients : ScanCommits(p)
    \/ \E p \in Clients : SaveData(p)

SpecRace == Init /\ [][NextRace]_vars

(* ======================= properties of the model ====================== *)

\* a step that is one call of update_progress (git operations change history)
CycleStep == clock' = clock + 1 /\ history' = history

\* the latest call got past get_git_repo and load_user_data
Scanned(o) == o \in {"no_new_commits", "saved", "save_failed"}

\* what a GET of the user's document returns now
Persisted == load_user_data(store, clock)

\* names of the achievement records that are unlocked
UnlockedNames(achievements) ==
    {achievements[i].name : i \in {j \in 1..Len(achievements) : achievements[j].unlocked_at # None}}

\* sum of the points of the unlocked achievement records
RECURSIVE UnlockedPoints(_)
UnlockedPoints(achievements) ==
    IF achievements = <<>> THEN 0
    ELSE (IF Head(achievements).unlocked_at # None THEN Head(achievements).points ELSE 0)
         + UnlockedPoints(Tail(achievements))

\* sum of the points of the records unlocked in after whose name is not unlocked in before
RECURSIVE NewlyUnlockedPoints(_, _)
NewlyUnlockedPoints(before, after) ==
    IF after = <<>> THEN 0
    ELSE (IF /\ Head(after).unlocked_at # None
             /\ Head(after).name \notin UnlockedNames(before)
          THEN Head(after).points ELSE 0)
         + NewlyUnlockedPoints(before, Tail(after))

\* the commits of h from the checkpoint (included) down to the oldest
RECURSIVE UpToCheckpoint(_, _)
UpToCheckpoint(h, checkpoint) ==
    IF h = <<>> THEN <<>>
    ELSE IF Head(h) = checkpoint THEN h
    ELSE UpToCheckpoint(Tail(h), checkpoint)

\* the score of every commit that can exist, each counted once
RECURSIVE PoolPoints(_)
PoolPoints(n) == IF n = 0 THEN 0 ELSE calculate_commit_points(Commit(n)) + PoolPoints(n - 1)

(* C1: after a cycle that found new commits and saved, the persisted
   last_processed_commit is the identifier of the head (index 0) of the full
   history that cycle saw, whichever way the new commits were found. *)
C1_CheckpointIsHead ==
    outcome = "saved" =>
        /\ all_commits # <<>>
        /\ store.user_progress.last_processed_commit = all_commits[1]

\* a saved cycle whose checkpoint was found below two new commits
C1_Witness ==
    /\ outcome = "saved"
    /\ Len(all_commits) = 3
    /\ Len(new_commits) = 2
    /\ store.user_progress.last_processed_commit = all_commits[1]

(* C2: while the history only grows at the front, the persisted total_points
   is the score of each commit from the checkpoint down to the oldest, counted
   once, plus the points of the unlocked achievements. *)
C2_NoCommitScoredTwice ==
    LET progress == store.user_progress
    IN  /\ progress.last_processed_commit # None
            => progress.last_processed_commit \in Range(history)
        /\ progress.total_points =
              NewPoints(UpToCheckpoint(history, progress.last_processed_commit))
              + UnlockedPoints(store.achievements)

\* a second saved cycle that found its checkpoint and scored only the newer commits
C2_Witness ==
    /\ outcome = "saved"
    /\ new_commits # <<>>
    /\ Len(new_commits) < Len(all_commits)
    /\ history = all_commits

(* C3: an unlocked achievement record is never changed again (so never set back
   to locked), and a cycle adds to total_points the score of its new commits
   plus the points of the achievements it unlocks in that cycle, nothing for
   an achievement unlocked earlier. *)
C3_UnlockedOnce ==
    [][ /\ \A i \in 1..Len(store.achievements) :
              store.achievements[i].unlocked_at # None
                  => /\ i <= Len(store'.achievements)
                     /\ store'.achievements[i] = store.achievements[i]
        /\ (CycleStep /\ outcome' = "saved")
              => store'.user_progress.total_points =
                    Persisted.user_progress.total_points
                    + NewPoints(new_commits')
                    + NewlyUnlockedPoints(store.achievements, store'.achievements)
      ]_vars

\* an achievement unlocked in one cycle and kept by a later saved cycle
C3_Witness ==
    /\ outcome = "saved"
    /\ \E i \in 1..Len(store.achievements) :
          /\ store.achievements[i].unlocked_at # None
          /\ store.achievements[i].unlocked_at < store.user_progress.last_updated

(* C4: a cycle whose new-commit set is empty (the checkpoint is the head of
   the history) returns before the save and leaves the persisted document,
   last_updated and every achievement record included, as it was. *)
C4_NoNewCommitsNoChange ==
    [][ (/\ CycleStep
         /\ Scanned(outcome')
         /\ \/ new_commits' = <<>>
            \/ /\ history # <<>>
               /\ Persisted.user_progress.last_processed_commit = Head(history))
        => /\ outcome' = "no_new_commits"
           /\ new_commits' = <<>>
           /\ store' = store
      ]_vars

\* a cycle that returned early on a scored, non-empty history
C4_Witness ==
    /\ outcome = "no_new_commits"
    /\ store.exists
    /\ all_commits # <<>>
    /\ store.user_progress.last_processed_commit = all_commits[1]

(* C5: with no checkpoint (last_processed_commit None or empty) and a
   non-empty history, the new-commit set is the whole history, in order. *)
C5_BootstrapTakesAll ==
    [][ (/\ CycleStep
         /\ Scanned(outcome')
         /\ history # <<>>
         /\ Persisted.user_progress.last_processed_commit = None)
        => new_commits' = history
      ]_vars

\* a first cycle over two or more commits (its save failed: still no document)
C5_Witness ==
    /\ outcome = "save_failed"
    /\ ~store.exists
    /\ Len(all_commits) >= 2
    /\ new_commits = all_commits

(* C6: when the checkpoint is the Nth commit of the history (1-based, newest
   first), the new-commit set is the N-1 commits before it, in order, without
   the checkpoint commit and without any older commit. *)
C6_NewerThanCheckpoint ==
    [][ (CycleStep /\ Scanned(outcome'))
        => \A N \in 1..Len(history) :
              history[N] = Persisted.user_progress.last_processed_commit
                  => /\ new_commits' = SubSeq(history, 1, N - 1)
                     /\ Len(new_commits') = N - 1
                     /\ \A k \in N..Len(history) : history[k] \notin Range(new_commits')
      ]_vars

\* a cycle whose checkpoint was the third commit
C6_Witness ==
    /\ Scanned(outcome)
    /\ Len(all_commits) = 3
    /\ new_commits = SubSeq(all_commits, 1, 2)

(* C7: a checkpoint that matches no commit of a non-empty history does not
   stop the cycle: the new-commit set is the whole history and a saved cycle
   adds the score of every commit of the history to total_points. *)
C7_RewrittenHistoryRescans ==
    [][ (/\ CycleStep
         /\ Scanned(outcome')
         /\ history # <<>>
         /\ Persisted.user_progress.last_processed_commit # None
         /\ Persisted.user_progress.last_processed_commit \notin Range(history))
        => /\ outcome' \in {"saved", "save_failed"}
           /\ new_commits' = history
           /\ outcome' = "saved"
                => store'.user_progress.total_points =
                      store.user_progress.total_points
                      + NewPoints(history)
                      + NewlyUnlockedPoints(store.achievements, store'.achievements)
      ]_vars

\* commit scores in total_points exceed the score of every possible commit
\* counted once: some commit has been scored twice
C7_Witness ==
    /\ outcome = "saved"
    /\ new_commits = all_commits
    /\ store.user_progress.total_points - UnlockedPoints(store.achievements)
          > PoolPoints(NumCommits)

(* C8: calculate_commit_points is 50 + min(floor(L/10), 50) + 5*F + (20 if
   H < 9 or H >= 21, else 0): never negative, message part at most 50, time
   bonus 0 or 20. *)
C8_ScoreFormula ==
    points_out # NoPoints =>
        LET L == commit_in.message_len
            F == commit_in.files
            H == commit_in.hour
            message_part == IF L \div 10 <= 50 THEN L \div 10 ELSE 50
            time_part == IF H < 9 \/ H >= 21 THEN 20 ELSE 0
        IN  /\ points_out = 50 + message_part + 5 * F + time_part
            /\ points_out >= 0
            /\ points_out - 50 - 5 * F - time_part <= 50
            /\ points_out - 50 - 5 * F - message_part \in {0, 20}

\* a scored commit whose message is long enough for the cap, late at night
C8_Witness ==
    /\ points_out # NoPoints
    /\ commit_in.message_len > 500
    /\ commit_in.hour >= 21
    /\ commit_in.files > 0

\* the example's input: a fresh user and a one-commit history (120, 4 files, 22h)
C9_Example ==
    /\ ~store.exists
    /\ Len(history) = 1
    /\ Commit(history[1]).message_len = 120
    /\ Commit(history[1]).files = 4
    /\ Commit(history[1]).hour = 22
    /\ CycleStep
    /\ outcome' = "saved"

\* the example's result for a given score, total and points still needed
C9_Result(score, total, needed) ==
    LET shown == get_user_data(store', clock')
    IN  /\ calculate_commit_points(Commit(history[1])) = score
        /\ UnlockedNames(store'.achievements)
              = {"First Commit", "Message Pro", "Multi-file Master", "Night Owl"}
        /\ store'.user_progress.total_points = total
        /\ shown.current_rank.name = "Cardboard"
        /\ shown.next_rank.name = "Bronze"
        /\ shown.next_rank.points_required - shown.user_progress.total_points = needed

(* C9 as stated: the example scores 140, ends at 840 points, 160 short of Bronze. *)
C9_Original == [][C9_Example => C9_Result(140, 840, 160)]_vars

(* C9 amended: the example commit scores 102 (message part floor(120/10) = 12),
   unlocks first_commit, message_pro, multi_file and night_owl, ends at 802
   points, rank Cardboard, 198 short of Bronze. *)
C9_ExampleScores102 == [][C9_Example => C9_Result(102, 802, 198)]_vars

\* the example has run
C9_Witness ==
    /\ outcome = "saved"
    /\ all_commits = <<1>>
    /\ new_commits = <<1>>
    /\ store.user_progress.total_points = 802
    /\ store.user_progress.last_updated = 3

(* C10: a cycle run on the history that the last saved cycle saw, from the
   document that cycle saved, unlocks nothing and adds no points. *)
C10_SecondRunIdempotent ==
    [][ (CycleStep /\ outcome = "saved" /\ all_commits = history)
        => /\ store'.user_progress.total_points = store.user_progress.total_points
           /\ UnlockedNames(store'.achievements) = UnlockedNames(store.achievements)
           /\ outcome' \notin {"saved", "save_failed"}
      ]_vars

\* a cycle that found nothing new right after the cycle that saved
C10_Witness ==
    /\ outcome = "no_new_commits"
    /\ all_commits = history
    /\ Len(history) >= 2
    /\ store.exists
    /\ store.user_progress.last_updated = clock - 1

(* C11: from one step to the next, whatever the cycle (nothing new, a
   rewritten history, a failed load or save), the persisted total_points
   never decreases. *)
C11_TotalNeverDecreases ==
    [][ store'.user_progress.total_points >= store.user_progress.total_points ]_vars

\* a cycle on a rewritten history whose save failed, points kept
C11_Witness ==
    /\ outcome = "save_failed"
    /\ store.exists
    /\ store.user_progress.total_points > 0
    /\ store.user_progress.last_processed_commit \notin Range(history)

\* the days on which the commits of h were made
DatesOf(h) == {Commit(h[i]).date : i \in 1..Len(h)}

(* C12: a saved cycle that finds commit_streak locked unlocks it exactly when
   the commit dates of the full history contain three days d, d+1, d+2,
   however many commits fall on each day. *)
C12_StreakIffThreeDays ==
    [][ (/\ CycleStep
         /\ outcome' = "saved"
         /\ "Commit Streak" \notin UnlockedNames(Persisted.achievements))
        => ("Commit Streak" \in UnlockedNames(store'.achievements)
              <=> \E d \in DatesOf(history) :
                     d + 1 \in DatesOf(history) /\ d + 2 \in DatesOf(history))
      ]_vars

\* the streak unlocked on three consecutive days, one of them with two commits
C12_Witness ==
    /\ outcome = "saved"
    /\ "Commit Streak" \in UnlockedNames(store.achievements)
    /\ Len(all_commits) = 4
    /\ Cardinality(DatesOf(all_commits)) = 3

(* C13: for every points >= 0, get_current_rank returns the one rank of the
   table with the highest points_required that is <= points: Cardboard for
   0..999, Mastermind from 75000 on. *)
C13_CurrentRankIsHighestReached ==
    ranks_out # NoRanks =>
        LET r == ranks_out.current
            reached == {q \in Range(RANKS) : q.points_required <= points_in}
        IN  /\ r \in reached
            /\ \A q \in reached : q.points_required <= r.points_required
            /\ Cardinality({q \in reached :
                              \A o \in reached : o.points_required <= q.points_required}) = 1
            /\ points_in <= 999 => r.name = "Cardboard"
            /\ points_in >= 75000 => r.name = "Mastermind"

\* Bronze reached at exactly its threshold
C13_Witness ==
    /\ points_in = 1000
    /\ ranks_out # NoRanks
    /\ ranks_out.current.name = "Bronze"

(* C14: for every points >= 0, get_next_rank returns the rank with the lowest
   points_required above points, none exactly from 75000 on; a returned rank
   is the entry of the table right after get_current_rank(points). *)
C14_NextRankIsSuccessor ==
    ranks_out # NoRanks =>
        LET n == ranks_out.next
            above == {q \in Range(RANKS) : q.points_required > points_in}
        IN  /\ n = NoRank <=> points_in >= 75000
            /\ n # NoRank =>
                  /\ n \in above
                  /\ \A q \in above : n.points_required <= q.points_required
                  /\ \E i \in 1..(Len(RANKS) - 1) :
                        RANKS[i] = ranks_out.current /\ RANKS[i + 1] = n

\* one point short of the last rank, and no next rank at the last threshold
C14_Witness ==
    /\ points_in = 74999
    /\ ranks_out # NoRanks
    /\ ranks_out.next.name = "Mastermind"
    /\ ranks_out.current.name = "Wizard"

\* both clients loaded the same progress and both reached a successful save
BothPostedFromSameProgress ==
    /\ \A p \in Clients : cycles[p].pc = "done" /\ cycles[p].posted
    /\ \A p, q \in Clients :
          /\ cycles[p].data.user_progress.last_processed_commit
                = cycles[q].data.user_progress.last_processed_commit
          /\ cycles[p].data.user_progress.total_points
                = cycles[q].data.user_progress.total_points
          /\ cycles[p].data.achievements = cycles[q].data.achievements

\* total_points with the score of each commit from the checkpoint down and the
\* points of each unlocked achievement counted once
CountedOnce ==
    NewPoints(UpToCheckpoint(history, store.user_progress.last_processed_commit))
    + UnlockedPoints(store.achievements)

(* C15 as stated: once two unserialized cycles that loaded the same stale
   progress have both saved, total_points holds some score more than once. *)
C15_Original ==
    BothPostedFromSameProgress => store.user_progress.total_points > CountedOnce

(* C15 amended: with two clients inside update_progress at once (history not
   rewritten), no interleaving double-counts: every POST replaces the progress
   by what one client computed from the snapshot it loaded, so total_points
   counts each commit down from the persisted checkpoint and each unlocked
   achievement once, and after both have saved the checkpoint is the head one
   of them scanned (the later save overwrites the earlier). *)
C15_UnserializedNeverDoubleCounts ==
    /\ store.user_progress.total_points = CountedOnce
    /\ store.user_progress.last_processed_commit # None
          => store.user_progress.last_processed_commit \in Range(history)
    /\ BothPostedFromSameProgress
          => \E p \in Clients :
                store.user_progress.last_processed_commit = Head(cycles[p].commits)

\* both saved from the same non-fresh progress; the later save was computed
\* from the shorter scan, so the persisted checkpoint is behind the other's
C15_Witness ==
    /\ BothPostedFromSameProgress
    /\ cycles[1].data.user_progress.last_processed_commit # None
    /\ cycles[1].commits # cycles[2].commits
    /\ \E p \in Clients :
          /\ Len(cycles[p].commits) = 3
          /\ store.user_progress.last_processed_commit # Head(cycles[p].commits)

(* C16: a cycle whose save fails leaves the persisted document exactly as it
   was, and the next cycle on the same history recomputes the same new-commit
   set from the persisted checkpoint and, when it saves, adds those commits'
   scores once to the persisted total and moves the checkpoint to the head. *)
C16_FailedSaveLeavesNothing ==
    [][ /\ (CycleStep /\ outcome' = "save_failed") => store' = store
        /\ (/\ CycleStep
            /\ outcome = "save_failed"
            /\ all_commits = history
            /\ Scanned(outcome'))
           => /\ new_commits' = new_commits
              /\ new_commits' # <<>>
              /\ outcome' = "saved"
                   => /\ store'.user_progress.total_points =
                            Persisted.user_progress.total_points
                            + NewPoints(new_commits)
                            + NewlyUnlockedPoints(store.achievements, store'.achievements)
                      /\ store'.user_progress.last_processed_commit = Head(history)
      ]_vars

\* a cycle found two commits above the persisted checkpoint and its save
\* failed: the document still holds the old checkpoint and timestamp
C16_Witness ==
    /\ outcome = "save_failed"
    /\ store.exists
    /\ all_commits = history
    /\ Len(new_commits) = 2
    /\ Len(all_commits) = 3
    /\ store.user_progress.last_processed_commit = all_commits[3]
    /\ store.user_progress.last_updated < clock

(* ----------------- the polling loop of start ----------------- *)

\* get_latest_commit_hash: the head's hexsha, None without a repository or
\* without a commit (repo.head.commit raises)
get_latest_commit_hash(repo_ok, commits) ==
    IF ~repo_ok \/ commits = <<>> THEN None ELSE Head(commits)

\* mutant: no branch for the first check
check_branch_NoFirst(current, last_known) ==
    IF current = None THEN "no_head"
    ELSE IF current # last_known THEN "changed"
    ELSE "unchanged"

\* the branch check_for_new_commits takes on the observed head and the global
check_branch(current, last_known) ==
    IF current = None THEN "no_head"
    ELSE IF last_known = None THEN "first_check"
    ELSE IF current # last_known THEN "changed"
    ELSE "unchanged"

\* a check that does not call update_progress: outcome "none" says so
NoUpdate ==
    /\ clock < MaxClock
    /\ clock' = clock + 1
    /\ outcome' = "none"
    /\ all_commits' = <<>>
    /\ new_commits' = <<>>
    /\ UNCHANGED <<history, store, probes, cycles>>

\* mutant: last_known_commit is set after update_progress, when it saved or
\* found nothing new
CheckForNewCommitsRetry(head_ok, repo_ok, load_ok, save_ok) ==
    /\ current_commit' = get_latest_commit_hash(head_ok, history)
    /\ LET branch == check_branch(current_commit', last_known_commit)
       IN  CASE branch = "no_head" ->
                  /\ NoUpdate
                  /\ check_returned' = "False"
                  /\ UNCHANGED last_known_commit
             [] branch = "first_check" ->
                  /\ NoUpdate
                  /\ last_known_commit' = current_commit'
                  /\ check_returned' = "False"
             [] branch = "changed" ->
                  /\ UpdateCycle(repo_ok, load_ok, save_ok)
                  /\ last_known_commit' = IF outcome' \in {"saved", "no_new_commits"}
                                          THEN current_commit' ELSE last_known_commit
                  /\ check_returned' = "True"
             [] branch = "unchanged" ->
                  /\ NoUpdate
                  /\ check_returned' = "False"
                  /\ UNCHANGED last_known_commit

\* one iteration of the loop of start: check_for_new_commits, then the sleep.
\* head_ok: get_git_repo found a repository in get_latest_commit_hash; the
\* other three are those of update_progress.
CheckForNewCommits(head_ok, repo_ok, load_ok, save_ok) ==
    /\ current_commit' = get_latest_commit_hash(head_ok, history)
    /\ LET branch == check_branch(current_commit', last_known_commit)
       IN  CASE branch = "no_head" ->
                  /\ NoUpdate
                  /\ check_returned' = "False"
                  /\ UNCHANGED last_known_commit
             [] branch = "first_check" ->
                  /\ NoUpdate
                  /\ last_known_commit' = current_commit'
                  /\ check_returned' = "False"
             [] branch = "changed" ->
                  /\ last_known_commit' = current_commit'
                  /\ UpdateCycle(repo_ok, load_ok, save_ok)
                  /\ check_returned' = "True"
             [] branch = "unchanged" ->
                  /\ NoUpdate
                  /\ check_returned' = "False"
                  /\ UNCHANGED last_known_commit

NextLoop ==
    \/ \E id \in CommitIds : GitCommit(id)
    \/ GitReset
    \/ \E head_ok, repo_ok, load_ok, save_ok \in BOOLEAN :
          CheckForNewCommits(head_ok, repo_ok, load_ok, save_ok)

SpecLoop == Init /\ [][NextLoop]_vars

\* h has commits on three days d, d+1, d+2
ThreeDaysRunning(h) ==
    \E d \in DatesOf(h) : d + 1 \in DatesOf(h) /\ d + 2 \in DatesOf(h)

\* h has five commits or more on one day
FiveOnOneDay(h) ==
    \E d \in DatesOf(h) : Cardinality({i \in 1..Len(h) : Commit(h[i]).date = d}) >= 5

(* C17: a saved cycle that scores only the newest commits of a history still
   evaluates the predicates on the full history: commit_streak unlocks when
   the earlier-scored days and the new one make three days running, and
   commit_enthusiast when the new commits bring a day to five, although the
   new commits alone satisfy neither. *)
C17_FullHistoryEvaluated ==
    [][ (/\ CycleStep
         /\ outcome' = "saved"
         /\ store.exists
         /\ Len(new_commits') < Len(history))
        => /\ (/\ "Commit Streak" \notin UnlockedNames(store.achievements)
               /\ ThreeDaysRunning(history)
               /\ ~ThreeDaysRunning(new_commits'))
              => "Commit Streak" \in UnlockedNames(store'.achievements)
           /\ (/\ "Commit Enthusiast" \notin UnlockedNames(store.achievements)
               /\ FiveOnOneDay(history)
               /\ ~FiveOnOneDay(new_commits'))
              => "Commit Enthusiast" \in UnlockedNames(store'.achievements)
      ]_vars

\* days D and D+1 were scored in earlier cycles; the cycle whose only new
\* commit is on D+2 unlocked the streak
C17_Witness ==
    /\ outcome = "saved"
    /\ Len(all_commits) = 3
    /\ Len(new_commits) = 1
    /\ Cardinality(DatesOf(all_commits)) = 3
    /\ \E i, j \in 1..Len(store.achievements) :
          /\ store.achievements[i].name = "Commit Streak"
          /\ store.achievements[i].unlocked_at = store.user_progress.last_updated
          /\ store.achievements[j].name = "First Commit"
          /\ store.achievements[j].unlocked_at # None
          /\ store.achievements[j].unlocked_at < store.achievements[i].unlocked_at

\* the fifth commit of a day arrived in a later cycle than the first four
C17_FifthCommitLater ==
    /\ outcome = "saved"
    /\ Len(all_commits) = 5
    /\ Len(new_commits) = 1
    /\ Cardinality(DatesOf(all_commits)) = 1
    /\ "Commit Enthusiast" \in UnlockedNames(store.achievements)

\* the names of the catalog
CatalogNames == {ACHIEVEMENTS[i].name : i \in 1..Len(ACHIEVEMENTS)}

\* the names that have a record in the list
RecordNames(achievements) == {achievements[i].name : i \in 1..Len(achievements)}

(* C18: from an empty achievements list, every step leaves at most one record
   per catalog name and removes no record; a cycle that scored new commits
   and saved leaves exactly one record for each of the 8 catalog
   achievements, each locked (unlocked_at None) or unlocked at a time up to
   that of the cycle. *)
C18_RecordsLazyNeverDuplicated ==
    [][ /\ \A i, j \in 1..Len(store'.achievements) :
              store'.achievements[i].name = store'.achievements[j].name => i = j
        /\ RecordNames(store'.achievements) \subseteq CatalogNames
        /\ RecordNames(store.achievements) \subseteq RecordNames(store'.achievements)
        /\ (CycleStep /\ outcome' = "saved")
           => /\ Len(store'.achievements) = 8
              /\ RecordNames(store'.achievements) = CatalogNames
              /\ \A i \in 1..Len(store'.achievements) :
                    \/ store'.achievements[i].unlocked_at = None
                    \/ store'.achievements[i].unlocked_at \in 1..clock'
      ]_vars

\* a second processed cycle found the eight records of the first, some of
\* them still locked, and left eight
C18_Witness ==
    /\ outcome = "saved"
    /\ Len(store.achievements) = 8
    /\ \E i \in 1..Len(store.achievements) :
          /\ store.achievements[i].unlocked_at # None
          /\ store.achievements[i].unlocked_at < store.user_progress.last_updated
    /\ \E i \in 1..Len(store.achievements) : store.achievements[i].unlocked_at = None

\* a step of the polling loop: one call of check_for_new_commits
CheckStep == clock' = clock + 1 /\ history' = history

\* whether the check of this step called update_progress
UpdateCalled == outcome' # "none"

(* C19: while last_known_commit is None a check that observes a head only
   records it and does not call update_progress; once it is set,
   update_progress is called exactly in the checks that observe a head
   different from it. So the document changes only in such a check, and the
   commits found by the first check stay unscored until the head changes. *)
C19_UpdateOnlyOnHeadChange ==
    [][ CheckStep
        => /\ last_known_commit = None
              => /\ ~UpdateCalled
                 /\ check_returned' = "False"
                 /\ store' = store
                 /\ last_known_commit' = current_commit'
           /\ last_known_commit # None
              => /\ UpdateCalled <=> /\ current_commit' # None
                                     /\ current_commit' # last_known_commit
                 /\ UpdateCalled <=> check_returned' = "True"
           /\ store' # store
              => /\ last_known_commit # None
                 /\ Head(history) # last_known_commit
      ]_vars

\* two commits existed at the first check, a later check saw the same head:
\* nothing is scored
C19_Witness ==
    /\ Len(history) = 2
    /\ last_known_commit = Head(history)
    /\ current_commit = last_known_commit
    /\ check_returned = "False"
    /\ outcome = "none"
    /\ ~store.exists
    /\ clock = 5

\* after the first check a third commit moved the head: the check scored all three
C19_HeadChangedScoresAll ==
    /\ Len(history) = 3
    /\ check_returned = "True"
    /\ outcome = "saved"
    /\ Len(new_commits) = 3
    /\ last_known_commit = Head(history)
    /\ clock = 6

(* C20: after every check that observes a head, last_known_commit is that
   head, whatever update_progress did; and a check that observes the head
   last_known_commit already holds does not call update_progress, although
   the update for that head failed and the document is behind the head. *)
C20_HeadRecordedWhateverOutcome ==
    [][ CheckStep
        => /\ current_commit' # None => last_known_commit' = current_commit'
           /\ current_commit' = None => last_known_commit' = last_known_commit
           /\ (/\ last_known_commit # None
               /\ current_commit' = last_known_commit
               /\ store.user_progress.last_processed_commit # last_known_commit)
              => /\ ~UpdateCalled
                 /\ store' = store
      ]_vars

\* the update for the head failed after an earlier one had saved; the next
\* check saw the same head and left the document behind it
C20_Witness ==
    /\ store.exists
    /\ history # <<>>
    /\ last_known_commit = Head(history)
    /\ current_commit = last_known_commit
    /\ store.user_progress.last_processed_commit # last_known_commit
    /\ store.user_progress.last_processed_commit \in Range(history)
    /\ check_returned = "False"
    /\ outcome = "none"

\* the state the failed update leaves: the head recorded, the document behind
C20_FailedUpdateRecordsHead ==
    /\ outcome \in {"no_repo", "load_failed", "save_failed"}
    /\ check_returned = "True"
    /\ last_known_commit = Head(history)
    /\ store.user_progress.last_processed_commit # last_known_commit

(* C21: a saved cycle that scored new commits leaves commits_count equal to
   the length of the history it scanned, whatever it was before; in a
   fallback rescan (the checkpoint matches no commit of the history) the
   count is still that length, while total_points grows by the score of
   every commit of the history on top of what it held. *)
C21_CommitsCountIsHistoryLength ==
    [][ (CycleStep /\ outcome' = "saved")
        => /\ store'.user_progress.commits_count = Len(history)
           /\ store'.user_progress.commits_count = Len(all_commits')
           /\ (/\ Persisted.user_progress.last_processed_commit # None
               /\ Persisted.user_progress.last_processed_commit \notin Range(history))
              => /\ Len(new_commits') = Len(history)
                 /\ store'.user_progress.total_points
                       >= store.user_progress.total_points + NewPoints(history)
      ]_vars

\* after a rescan of a rewritten history of one commit: the count is 1, the
\* commit scores in total_points are more than that commit's
C21_Witness ==
    /\ outcome = "saved"
    /\ store.exists
    /\ Len(all_commits) = 1
    /\ new_commits = all_commits
    /\ store.user_progress.commits_count = 1
    /\ store.user_progress.total_points - UnlockedPoints(store.achievements)
          > NewPoints(all_commits)

====
